---- MODULE Spec2Model ----
(***************************************************************************)
(* Model of the two meme-lookup services of forge-plugins-memes:           *)
(*   "simple"  : src/src/index.ts      (Giphy search, top result)          *)
(*   "refined" : src/unnamed/part_000  (OpenAI query refinement, Google    *)
(*               image search, sequential HEAD probing of candidates)      *)
(* One POST /find_meme handler is an async function; it runs atomically    *)
(* between its awaited outbound calls.  Every action below is the code     *)
(* that runs from the return of one awaited call (or the arrival of the    *)
(* request) to the next await or to the response.                          *)
(*                                                                         *)
(* Strings that the code inspects (texts, queries, content types) are      *)
(* sequences of one-character strings.  Optional values (undefined/null)   *)
(* are None == <<>>, present values are Some(v) == <<v>>.                  *)
(***************************************************************************)
EXTENDS Integers, Sequences, FiniteSets, TLC

VARIABLES variant, now, pc, req, loc, calls, replies, res

vars == <<variant, now, pc, req, loc, calls, replies, res>>

(* ------------------------------ bounds --------------------------------- *)
NumClients == 2
MaxClock == 1
MaxItems == 2

Clients == 1..NumClients

(* --------------------------- basic values ------------------------------ *)
None == <<>>
Some(v) == <<v>>

SeqsUpTo(S, n) == UNION {[1..k -> S] : k \in 0..n}

Image == <<"i","m","a","g","e","/">>
ImagePng == Image \o <<"p","n","g">>
ImageGif == Image \o <<"g","i","f">>
ImageAB == Image \o <<"a","/","b">>
TextHtml == <<"t","e","x","t","/","h","t","m","l">>
OctetStream == <<"a","p","p","l","i","c","a","t","i","o","n","/","o","c","t","e","t","-","s","t","r","e","a","m">>
ExtGif == <<"g","i","f">>
ExtImg == <<"i","m","g">>

Pad == 64

(* ------------------------- JavaScript helpers -------------------------- *)
\* Variant of Falsy that lets the empty string through.
Falsy_OnlyNullish(v) == v = None

\* !v for an optional string: undefined/null and "" are falsy.
Falsy(v) == v = None \/ v[1] = <<>>

IsSpace(c) == c = " "

RECURSIVE TrimStart(_)
TrimStart(s) ==
    IF s # <<>> /\ IsSpace(Head(s)) THEN TrimStart(Tail(s)) ELSE s

RECURSIVE TrimEnd(_)
TrimEnd(s) ==
    IF s # <<>> /\ IsSpace(s[Len(s)]) THEN TrimEnd(SubSeq(s, 1, Len(s) - 1)) ELSE s

\* String.prototype.trim
Trim(s) == TrimEnd(TrimStart(s))

\* String.prototype.startsWith
StartsWith(s, p) == Len(s) >= Len(p) /\ SubSeq(s, 1, Len(p)) = p

\* s.split('/') : the sequence of segments between slashes.
RECURSIVE SplitSlash(_, _)
SplitSlash(s, cur) ==
    IF s = <<>> THEN <<cur>>
    ELSE IF Head(s) = "/" THEN <<cur>> \o SplitSlash(Tail(s), <<>>)
    ELSE SplitSlash(Tail(s), Append(cur, Head(s)))

\* Buffer.toString('base64'): sextets 0..63, Pad for '='.
RECURSIVE Base64Encode(_)
Base64Encode(b) ==
    IF Len(b) = 0 THEN <<>>
    ELSE IF Len(b) = 1 THEN
        <<b[1] \div 4, (b[1] % 4) * 16, Pad, Pad>>
    ELSE IF Len(b) = 2 THEN
        <<b[1] \div 4, (b[1] % 4) * 16 + b[2] \div 16, (b[2] % 16) * 4, Pad>>
    ELSE
        <<b[1] \div 4, (b[1] % 4) * 16 + b[2] \div 16,
          (b[2] % 16) * 4 + b[3] \div 64, b[3] % 64>>
        \o Base64Encode(SubSeq(b, 4, Len(b)))

\* The inverse transformation a client applies to the base64 field.
RECURSIVE Base64Decode(_)
Base64Decode(s) ==
    IF Len(s) < 4 THEN <<>>
    ELSE
        LET b1 == s[1] * 4 + s[2] \div 16
            b2 == (s[2] % 16) * 16 + s[3] \div 4
            b3 == (s[3] % 4) * 64 + s[4]
            rest == Base64Decode(SubSeq(s, 5, Len(s)))
        IN  IF s[3] = Pad THEN <<b1>>
            ELSE IF s[4] = Pad THEN <<b1, b2>>
            ELSE <<b1, b2, b3>> \o rest

(* ------------------------ environment inputs --------------------------- *)
Throw(m) == [throw |-> TRUE, msg |-> <<m>>]

Texts == {None, Some(<<>>), Some(<<" ">>), Some(<<"a">>)}

\* Request bodies of the simple service: { args: { description } }.
SimpleBodies ==
    {[args |-> None]} \cup {[args |-> Some([description |-> d])] : d \in Texts}

\* Request bodies of the refined service: { text, model? }.
RefinedBodies == {[text |-> t] : t \in Texts}

\* Outcomes of openai.chat.completions.create.
LlmReplies ==
    {Throw("openai error")} \cup
    {[throw |-> FALSE, content |-> c, usage |-> u] :
        c \in {None, Some(<<>>), Some(<<" ">>), Some(<<" ","q"," ">>)},
        u \in {None, Some(7)}}

\* Giphy result items (gif.images?.original?.url, gif.title).
SimpleItems == {[url |-> None, title |-> "t1"], [url |-> Some("u1"), title |-> "t1"]}

\* Google result items (item.link, item.title).
RefinedItems == {[link |-> "u1", title |-> "t1"], [link |-> "u2", title |-> "t2"]}

SearchReplies(Items) ==
    {Throw("network error")} \cup
    {[throw |-> FALSE, ok |-> FALSE, statusText |-> "Internal Server Error", items |-> None]} \cup
    {[throw |-> FALSE, ok |-> TRUE, statusText |-> "OK", items |-> None]} \cup
    {[throw |-> FALSE, ok |-> TRUE, statusText |-> "OK", items |-> Some(l)] :
        l \in SeqsUpTo(Items, MaxItems)}

\* Outcomes of a HEAD probe (a timeout is a throw).
HeadReplies ==
    {Throw("timeout")} \cup
    {[throw |-> FALSE, ok |-> o, ctype |-> c] :
        o \in BOOLEAN, c \in {None, Some(ImagePng), Some(TextHtml)}}

\* Bodies of the image response: none, and one for each padding case of
\* the encoding, and one longer than a three-byte group.
Bodies == {<<>>, <<255>>, <<0, 255>>, <<255, 0, 77>>, <<1, 2, 3, 4>>}

\* Outcomes of the image GET.
GetReplies ==
    {Throw("network error")} \cup
    {[throw |-> FALSE, ok |-> FALSE, statusText |-> "Not Found", ctype |-> None, body |-> <<>>]} \cup
    {[throw |-> FALSE, ok |-> TRUE, statusText |-> "OK", ctype |-> c, body |-> b] :
        c \in {None, Some(ImagePng), Some(ImageGif), Some(Image), Some(ImageAB), Some(TextHtml)},
        b \in Bodies}

(* ------------------------------ state ---------------------------------- *)
NoRes == [status |-> 0, body |-> [f \in {} |-> 0]]

InitLoc ==
    [searchQuery |-> <<>>, usage |-> None, items |-> <<>>, idx |-> 0,
     imageUrl |-> "", imageTitle |-> "", found |-> FALSE]

Init ==
    /\ variant \in {"simple", "refined"}
    /\ now = 0
    /\ pc = [r \in Clients |-> "idle"]
    /\ req = [r \in Clients |-> None]
    /\ loc = [r \in Clients |-> InitLoc]
    /\ calls = [r \in Clients |-> <<>>]
    /\ replies = [r \in Clients |-> <<>>]
    /\ res = [r \in Clients |-> NoRes]

(* ------------------------- response helpers ---------------------------- *)
\* res.status(400).json({ error })
BadRequest(m) == [status |-> 400, body |-> [error |-> m]]

\* Variant of NotFound that answers with the generic failure status.
NotFound_AsFailure(m) == [status |-> 500, body |-> [error |-> m]]

\* res.status(404).json({ error })
NotFound(m) == [status |-> 404, body |-> [error |-> m]]

\* Variant of CatchResponse that answers "not found".
CatchResponse_AsNotFound(m) == [status |-> 404, body |-> [error |-> m]]

\* catch (error) { res.status(500).json({ error: error.message }) }
CatchResponse(m) == [status |-> 500, body |-> [error |-> m]]

\* res.json(result): status 200
Success(tokens, artifact, data) ==
    [status |-> 200,
     body |-> [ok |-> TRUE, tokensUsed |-> tokens, artifacts |-> <<artifact>>,
               result |-> data]]

\* The handler sends its response and ends.
Respond(r, x) ==
    /\ res' = [res EXCEPT ![r] = x]
    /\ pc' = [pc EXCEPT ![r] = "done"]

\* The handler issues an outbound call and suspends at the await.
Await(r, p, call) ==
    /\ calls' = [calls EXCEPT ![r] = Append(@, call)]
    /\ pc' = [pc EXCEPT ![r] = p]
    /\ UNCHANGED res

\* The awaited call settles with reply y.
Settle(r, y) == replies' = [replies EXCEPT ![r] = Append(@, y)]

\* Date.now() advances between events of the loop (millisecond clock).
Tick ==
    /\ now < MaxClock
    /\ now' = now + 1
    /\ UNCHANGED <<variant, pc, req, loc, calls, replies, res>>

(* =================== simple service: src/src/index.ts ================== *)
\* const { args } = req.body; const { description } = args || {};
SimpleDescription(b) == IF b.args = None THEN None ELSE b.args[1].description

\* !data.data || data.data.length === 0
SimpleNoData(items) == items = None \/ Len(items[1]) = 0

\* The request arrives: validation, then the Giphy search call.
SimpleReceive(r, b) ==
    /\ variant = "simple"
    /\ pc[r] = "idle"
    /\ req' = [req EXCEPT ![r] = b]
    /\ LET description == SimpleDescription(b) IN
        IF Falsy(description)
        THEN /\ Respond(r, BadRequest(<<"Missing description parameter">>))
             /\ UNCHANGED calls
        ELSE Await(r, "search", [kind |-> "search", q |-> description[1]])
    /\ UNCHANGED <<variant, now, loc, replies>>

\* The search call settles: status check, empty-result check, top result.
SimpleSearchReturn(r, y) ==
    /\ variant = "simple"
    /\ pc[r] = "search"
    /\ Settle(r, y)
    /\ IF y.throw
       THEN Respond(r, CatchResponse(y.msg)) /\ UNCHANGED <<loc, calls>>
       ELSE IF ~y.ok
       THEN /\ Respond(r, CatchResponse(<<"Giphy API failed: ", y.statusText>>))
            /\ UNCHANGED <<loc, calls>>
       ELSE IF SimpleNoData(y.items)
       THEN /\ Respond(r, NotFound(<<"No meme found for this description.">>))
            /\ UNCHANGED <<loc, calls>>
       ELSE LET gif == y.items[1][1] IN
            IF gif.url = None
            THEN /\ Respond(r, NotFound(<<"No valid image URL in Giphy response.">>))
                 /\ UNCHANGED <<loc, calls>>
            ELSE /\ loc' = [loc EXCEPT ![r].imageUrl = gif.url[1],
                                       ![r].imageTitle = gif.title]
                 /\ Await(r, "get", [kind |-> "get", url |-> gif.url[1]])
    /\ UNCHANGED <<variant, now, req>>

\* imageResponse.headers.get('content-type') || 'image/gif'
SimpleMimeType(ctype) == IF Falsy(ctype) THEN ImageGif ELSE ctype[1]

\* name: `meme_${Date.now()}.gif`
SimpleName(t) == <<"meme_", t, ".", ExtGif>>

\* The image GET settles: status check, encoding, response.
SimpleGetReturn(r, y) ==
    /\ variant = "simple"
    /\ pc[r] = "get"
    /\ Settle(r, y)
    /\ IF y.throw
       THEN Respond(r, CatchResponse(y.msg))
       ELSE IF ~y.ok
       THEN Respond(r, CatchResponse(<<"Failed to download image: ", y.statusText>>))
       ELSE LET mimeType == SimpleMimeType(y.ctype)
                artifact == [name |-> SimpleName(now), type |-> "image",
                             base64 |-> Base64Encode(y.body), mimeType |-> mimeType]
                responseData == [url |-> loc[r].imageUrl, title |-> loc[r].imageTitle,
                                 query |-> SimpleDescription(req[r])[1]]
            IN  Respond(r, Success(0, artifact, responseData))
    /\ UNCHANGED <<variant, now, req, loc, calls>>

(* ================= refined service: src/unnamed/part_000 =============== *)
\* Variant of SearchQueryOf without the fallback to the raw text.
SearchQueryOf_NoFallback(content, text) ==
    IF content = None THEN <<>> ELSE Trim(content[1])

\* completion.choices[0].message.content?.trim() || text
SearchQueryOf(content, text) ==
    IF content = None THEN text
    ELSE IF Trim(content[1]) = <<>> THEN text
    ELSE Trim(content[1])

\* !searchData.items || searchData.items.length === 0
RefinedNoItems(items) == items = None \/ Len(items[1]) = 0

\* Variant of HeadAccepts that accepts any successful HEAD response.
HeadAccepts_AnyOk(y) == ~y.throw /\ y.ok

\* Variant of HeadAccepts that ignores the HEAD response's status.
HeadAccepts_NoOk(y) ==
    /\ ~y.throw
    /\ StartsWith(IF y.ctype = None THEN <<>> ELSE y.ctype[1], <<"i","m","a","g","e","/">>)

\* headResponse.ok && (content-type || '').startsWith('image/'); a throw
\* is caught and the candidate skipped.
HeadAccepts(y) ==
    /\ ~y.throw
    /\ y.ok
    /\ StartsWith(IF Falsy(y.ctype) THEN <<>> ELSE y.ctype[1], Image)

\* imageResponse.headers.get('content-type') || 'application/octet-stream'
RefinedMimeType(ctype) == IF Falsy(ctype) THEN OctetStream ELSE ctype[1]

\* Variant of RefinedExt that always uses the generic extension.
RefinedExt_Generic(m) == <<"i","m","g">>

\* mimeType.split('/')[1] || 'img'
RefinedExt(m) ==
    LET parts == SplitSlash(m, <<>>) IN
    IF Len(parts) >= 2 /\ parts[2] # <<>> THEN parts[2] ELSE ExtImg

\* name: `meme_${Date.now()}.${ext}`
RefinedName(t, m) == <<"meme_", t, ".", RefinedExt(m)>>

\* Variant of TokensUsed that drops the reported usage.
TokensUsed_Zero(u) == 0

\* completion.usage?.total_tokens || 0
TokensUsed(u) == IF u = None \/ u[1] = 0 THEN 0 ELSE u[1]

\* The request arrives: validation, then the language-model call.
RefinedReceive(r, b) ==
    /\ variant = "refined"
    /\ pc[r] = "idle"
    /\ req' = [req EXCEPT ![r] = b]
    /\ IF Falsy(b.text)
       THEN /\ Respond(r, BadRequest(<<"Missing text parameter">>))
            /\ UNCHANGED calls
       ELSE Await(r, "llm", [kind |-> "llm", content |-> b.text[1]])
    /\ UNCHANGED <<variant, now, loc, replies>>

\* The language-model call settles: query refinement, then the search call.
RefinedLlmReturn(r, y) ==
    /\ variant = "refined"
    /\ pc[r] = "llm"
    /\ Settle(r, y)
    /\ IF y.throw
       THEN Respond(r, CatchResponse(y.msg)) /\ UNCHANGED <<loc, calls>>
       ELSE LET searchQuery == SearchQueryOf(y.content, req[r].text[1]) IN
            /\ loc' = [loc EXCEPT ![r].searchQuery = searchQuery,
                                  ![r].usage = y.usage]
            /\ Await(r, "search", [kind |-> "search", q |-> searchQuery])
    /\ UNCHANGED <<variant, now, req>>

\* The search call settles: status check, empty-result check, first probe.
RefinedSearchReturn(r, y) ==
    /\ variant = "refined"
    /\ pc[r] = "search"
    /\ Settle(r, y)
    /\ IF y.throw
       THEN Respond(r, CatchResponse(y.msg)) /\ UNCHANGED <<loc, calls>>
       ELSE IF ~y.ok
       THEN /\ Respond(r, CatchResponse(<<"Google Search API failed: ", y.statusText>>))
            /\ UNCHANGED <<loc, calls>>
       ELSE IF RefinedNoItems(y.items)
       THEN /\ Respond(r, NotFound(<<"No meme found for this description.">>))
            /\ UNCHANGED <<loc, calls>>
       ELSE /\ loc' = [loc EXCEPT ![r].items = y.items[1], ![r].idx = 1]
            /\ Await(r, "head", [kind |-> "head", idx |-> 1, url |-> y.items[1][1].link])
    /\ UNCHANGED <<variant, now, req>>

\* A HEAD probe settles: accept and fetch, or go on to the next candidate,
\* or give up after the last one.
RefinedHeadReturn(r, y) ==
    /\ variant = "refined"
    /\ pc[r] = "head"
    /\ Settle(r, y)
    /\ LET item == loc[r].items[loc[r].idx] IN
       IF HeadAccepts(y)
       THEN /\ loc' = [loc EXCEPT ![r].imageUrl = item.link,
                                  ![r].imageTitle = item.title,
                                  ![r].found = TRUE]
            /\ Await(r, "get", [kind |-> "get", url |-> item.link])
       ELSE IF loc[r].idx < Len(loc[r].items)
       THEN /\ loc' = [loc EXCEPT ![r].idx = @ + 1]
            /\ Await(r, "head", [kind |-> "head", idx |-> loc[r].idx + 1,
                                 url |-> loc[r].items[loc[r].idx + 1].link])
       ELSE /\ Respond(r, NotFound(<<"No valid image accessible from search results.">>))
            /\ UNCHANGED <<loc, calls>>
    /\ UNCHANGED <<variant, now, req>>

\* The image GET settles: status check, content-type check, encoding, response.
RefinedGetReturn(r, y) ==
    /\ variant = "refined"
    /\ pc[r] = "get"
    /\ Settle(r, y)
    /\ IF y.throw
       THEN Respond(r, CatchResponse(y.msg))
       ELSE IF ~y.ok
       THEN Respond(r, CatchResponse(<<"Failed to download image: ", y.statusText>>))
       ELSE LET mimeType == RefinedMimeType(y.ctype) IN
            IF ~StartsWith(mimeType, Image)
            THEN Respond(r, CatchResponse(<<"URL returned non-image content: ", mimeType>>))
            ELSE LET artifact == [name |-> RefinedName(now, mimeType), type |-> "image",
                                  base64 |-> Base64Encode(y.body), mimeType |-> mimeType]
                     responseData == [url |-> loc[r].imageUrl, title |-> loc[r].imageTitle,
                                      query |-> loc[r].searchQuery]
                 IN  Respond(r, Success(TokensUsed(loc[r].usage), artifact, responseData))
    /\ UNCHANGED <<variant, now, req, loc, calls>>

(* --------------------------- specifications ---------------------------- *)
\* One request, every outcome of every outbound call.
Next ==
    \/ Tick
    \/ \E b \in SimpleBodies : SimpleReceive(1, b)
    \/ \E y \in SearchReplies(SimpleItems) : SimpleSearchReturn(1, y)
    \/ \E y \in GetReplies : SimpleGetReturn(1, y)
    \/ \E b \in RefinedBodies : RefinedReceive(1, b)
    \/ \E y \in LlmReplies : RefinedLlmReturn(1, y)
    \/ \E y \in SearchReplies(RefinedItems) : RefinedSearchReturn(1, y)
    \/ \E y \in HeadReplies : RefinedHeadReturn(1, y)
    \/ \E y \in GetReplies : RefinedGetReturn(1, y)

Spec == Init /\ [][Next]_vars

\* Several requests in flight in one process, interleaved at the awaits;
\* every outbound call succeeds.
OkText == Some(<<"a">>)
OkLlm == [throw |-> FALSE, content |-> Some(<<"q">>), usage |-> Some(7)]
OkSearch(Items) ==
    {[throw |-> FALSE, ok |-> TRUE, statusText |-> "OK", items |-> Some(<<i>>)] : i \in Items}
OkHead == [throw |-> FALSE, ok |-> TRUE, ctype |-> Some(ImagePng)]
OkGet == [throw |-> FALSE, ok |-> TRUE, statusText |-> "OK", ctype |-> Some(ImagePng), body |-> <<0>>]

NextConc ==
    \/ Tick
    \/ \E r \in Clients : SimpleReceive(r, [args |-> Some([description |-> OkText])])
    \/ \E r \in Clients : \E y \in OkSearch({[url |-> Some("u1"), title |-> "t1"]}) : SimpleSearchReturn(r, y)
    \/ \E r \in Clients : SimpleGetReturn(r, OkGet)
    \/ \E r \in Clients : RefinedReceive(r, [text |-> OkText])
    \/ \E r \in Clients : RefinedLlmReturn(r, OkLlm)
    \/ \E r \in Clients : \E y \in OkSearch({[link |-> "u1", title |-> "t1"]}) : RefinedSearchReturn(r, y)
    \/ \E r \in Clients : RefinedHeadReturn(r, OkHead)
    \/ \E r \in Clients : RefinedGetReturn(r, OkGet)

SpecConc == Init /\ [][NextConc]_vars

(* ============================ properties =============================== *)
Done(r) == pc[r] = "done"
Received(r) == pc[r] # "idle"
Status(r) == res[r].status
Body(r) == res[r].body
IsErrorBody(r) == DOMAIN Body(r) = {"error"}
KindCount(r, k) == Cardinality({i \in DOMAIN calls[r] : calls[r][i].kind = k})
HeadCalls(r) == SelectSeq(calls[r], LAMBDA c : c.kind = "head")
\* Replies to the HEAD probes, in probe order (the probes follow the
\* language-model call and the search call).
HeadReply(r, k) == replies[r][k + 2]
HeadReplyCount(r) ==
    Cardinality({i \in DOMAIN replies[r] : calls[r][i].kind = "head"})

\* The required input field of the request, as the client sent it.
RequiredField(r) ==
    IF variant = "simple"
    THEN IF req[r].args = None THEN None ELSE req[r].args[1].description
    ELSE req[r].text
MissingOrEmpty(v) == v = None \/ v = Some(<<>>)

\* The HEAD response declares a content type beginning with 'image/'.
ReportsImage(y) ==
    /\ ~y.throw
    /\ y.ctype # None
    /\ Len(y.ctype[1]) >= 6
    /\ SubSeq(y.ctype[1], 1, 6) = <<"i","m","a","g","e","/">>

\* The HEAD response is a success and declares an image content type.
OkImage(y) == ReportsImage(y) /\ y.ok

\* C1: a request whose required field (args.description / text) is missing
\* or empty is answered 400 with an {error} body, and no outbound call is
\* ever issued for it.
C1_InvalidInputIs400NoCalls ==
    \A r \in Clients :
        (Received(r) /\ MissingOrEmpty(RequiredField(r))) =>
            /\ Done(r)
            /\ Status(r) = 400
            /\ IsErrorBody(r)
            /\ calls[r] = <<>>

C1_Witness ==
    /\ Done(1)
    /\ RequiredField(1) = Some(<<>>)
    /\ Status(1) = 400

\* C2: refined service: while no HEAD reply has reported an image content
\* type (throws and timeouts included), the image GET is not issued, and
\* when the candidate loop ends that way the response is 404.
C2_NoImageHeadIs404NoGet ==
    \A r \in Clients :
        (/\ variant = "refined"
         /\ loc[r].idx >= 1
         /\ \A k \in 1..HeadReplyCount(r) : ~ReportsImage(HeadReply(r, k))) =>
            /\ KindCount(r, "get") = 0
            /\ Done(r) => Status(r) = 404

C2_Witness ==
    /\ variant = "refined"
    /\ Done(1)
    /\ Status(1) = 404
    /\ HeadReplyCount(1) = 2
    /\ HeadReply(1, 1).throw
    /\ ~HeadReply(1, 2).throw
    /\ \A k \in 1..2 : ~ReportsImage(HeadReply(1, k))

\* Probes go through the list in order, one at a time, each entry once.
ProbesInOrder(r) ==
    /\ \A k \in DOMAIN HeadCalls(r) :
        /\ HeadCalls(r)[k].idx = k
        /\ HeadCalls(r)[k].url = loc[r].items[k].link
    /\ Len(HeadCalls(r)) <= Len(loc[r].items)
    /\ Len(calls[r]) <= Len(replies[r]) + 1

\* The accepted candidate is the first probed one satisfying Good, and it
\* is the last one probed.
AcceptsFirst(r, Good(_)) ==
    /\ loc[r].found =>
        /\ Len(HeadCalls(r)) = loc[r].idx
        /\ Good(HeadReply(r, loc[r].idx))
        /\ loc[r].imageUrl = loc[r].items[loc[r].idx].link
    /\ \A k \in 1..HeadReplyCount(r) :
        Good(HeadReply(r, k)) => (loc[r].found /\ loc[r].idx = k)

\* C3 (as stated): candidates are probed in list order, once each, and the
\* accepted one is the first whose declared content type begins with
\* 'image/'; nothing after it is probed.
C3_Original ==
    \A r \in Clients :
        variant = "refined" => (ProbesInOrder(r) /\ AcceptsFirst(r, ReportsImage))

\* C3 (amended): candidates are probed in list order, once each, and the
\* accepted one is the first whose HEAD response has a success status and
\* a declared content type beginning with 'image/'; nothing after it is
\* probed.
C3_AcceptsFirstOkImage ==
    \A r \in Clients :
        variant = "refined" => (ProbesInOrder(r) /\ AcceptsFirst(r, OkImage))

C3_Witness ==
    /\ variant = "refined"
    /\ loc[1].found
    /\ loc[1].idx = 2
    /\ Len(loc[1].items) = 2
    /\ ReportsImage(HeadReply(1, 1))
    /\ ~HeadReply(1, 1).ok
    /\ Done(1)

\* Usage reported by the language-model call (its reply is the first one).
ReportedUsage(r) ==
    IF replies[r][1].usage = None THEN 0 ELSE replies[r][1].usage[1]

\* C4 (as stated): tokensUsed is 0 on every response of the simple
\* service, and equals the reported usage in the refined service.
C4_Original ==
    \A r \in Clients :
        Done(r) =>
            /\ variant = "simple" =>
                ("tokensUsed" \in DOMAIN Body(r) /\ Body(r).tokensUsed = 0)
            /\ (variant = "refined" /\ Status(r) = 200) =>
                Body(r).tokensUsed = ReportedUsage(r)

\* C4 (amended): on every successful (200) response tokensUsed is 0 in
\* the simple service and the reported usage (0 when none is reported) in
\* the refined service; error responses (400, 404, 500) carry only
\* {error} and no tokensUsed field.
C4_TokensOnSuccessOnly ==
    \A r \in Clients :
        Done(r) =>
            /\ (variant = "simple" /\ Status(r) = 200) => Body(r).tokensUsed = 0
            /\ (variant = "refined" /\ Status(r) = 200) =>
                Body(r).tokensUsed = ReportedUsage(r)
            /\ Status(r) # 200 => (IsErrorBody(r) /\ Status(r) \in {400, 404, 500})

C4_Witness ==
    /\ variant = "refined"
    /\ Done(1)
    /\ Status(1) = 200
    /\ Body(1).tokensUsed = 7

\* C5: a successful response has exactly one artifact, and its base64
\* field decodes to a non-empty byte sequence.
C5_ArtifactNonEmpty ==
    \A r \in Clients :
        (Done(r) /\ Status(r) = 200) =>
            /\ Len(Body(r).artifacts) = 1
            /\ Len(Base64Decode(Body(r).artifacts[1].base64)) > 0

\* The k-th outbound call of request r failed in one of the ways C6 lists.
LastCall(r) == calls[r][Len(calls[r])]
LastReply(r) == replies[r][Len(replies[r])]
NotImageType(c) ==
    \/ c = None
    \/ Len(c[1]) < 6
    \/ SubSeq(c[1], 1, 6) # <<"i","m","a","g","e","/">>
DependencyFailed(r) ==
    /\ replies[r] # <<>>
    /\ Len(replies[r]) = Len(calls[r])
    /\ LET c == LastCall(r)
           y == LastReply(r)
       IN  \/ c.kind = "llm" /\ y.throw
           \/ c.kind = "search" /\ ~y.throw /\ ~y.ok
           \/ c.kind = "get" /\ ~y.throw /\ ~y.ok
           \/ variant = "refined" /\ c.kind = "get" /\ ~y.throw /\ y.ok
                /\ NotImageType(y.ctype)

\* C6: when the language-model call throws, the search or the image GET
\* answers with a non-success status, or (refined service) the image GET
\* reports a non-image content type, the request ends with status 500 and
\* an {error: message} body, without artifact, and the failed call was
\* issued exactly once.
C6_DependencyFailureIs500 ==
    \A r \in Clients :
        \A n \in 1..Len(replies[r]) :
            LET c == calls[r][n]
                y == replies[r][n]
                failed ==
                    \/ c.kind = "llm" /\ y.throw
                    \/ c.kind = "search" /\ ~y.throw /\ ~y.ok
                    \/ c.kind = "get" /\ ~y.throw /\ ~y.ok
                    \/ variant = "refined" /\ c.kind = "get" /\ ~y.throw /\ y.ok
                         /\ NotImageType(y.ctype)
            IN  failed =>
                    /\ Done(r)
                    /\ Status(r) = 500
                    /\ IsErrorBody(r)
                    /\ Body(r).error # <<>>
                    /\ (y.throw => Body(r).error = y.msg)
                    /\ n = Len(calls[r])
                    /\ KindCount(r, c.kind) = 1

C6_Witness ==
    /\ variant = "refined"
    /\ Done(1)
    /\ Status(1) = 500
    /\ DependencyFailed(1)
    /\ LastCall(1).kind = "get"
    /\ LastReply(1).ok

\* C7: a successful search response without result items (list absent or
\* empty) is answered 404, and neither a HEAD probe nor an image GET is
\* issued.
C7_NoItemsIs404 ==
    \A r \in Clients :
        \A n \in 1..Len(replies[r]) :
            (/\ calls[r][n].kind = "search"
             /\ ~replies[r][n].throw
             /\ replies[r][n].ok
             /\ replies[r][n].items \in {None, Some(<<>>)}) =>
                /\ Done(r)
                /\ Status(r) = 404
                /\ IsErrorBody(r)
                /\ KindCount(r, "head") = 0
                /\ KindCount(r, "get") = 0

C7_Witness ==
    /\ Done(1)
    /\ Status(1) = 404
    /\ LastCall(1).kind = "search"
    /\ LastReply(1).ok
    /\ LastReply(1).items = Some(<<>>)

\* The artifact of a successful response.
Artifact(r) == Body(r).artifacts[1]
ExtOf(r) == Artifact(r).name[4]
\* The text of a MIME type after its first '/'.
RECURSIVE AfterSlash(_)
AfterSlash(m) ==
    IF m = <<>> THEN <<>>
    ELSE IF Head(m) = "/" THEN Tail(m)
    ELSE AfterSlash(Tail(m))
\* The text of s up to its first '/'.
RECURSIVE UpToSlash(_)
UpToSlash(s) ==
    IF s = <<>> \/ Head(s) = "/" THEN <<>>
    ELSE <<Head(s)>> \o UpToSlash(Tail(s))

Blank(s) == \A i \in DOMAIN s : s[i] = " "
\* q is s without its leading and trailing white space.
IsTrimOf(q, s) ==
    /\ q # <<>>
    /\ q[1] # " "
    /\ q[Len(q)] # " "
    /\ \E i \in 0..Len(s) :
        /\ i + Len(q) <= Len(s)
        /\ SubSeq(s, i + 1, i + Len(q)) = q
        /\ Blank(SubSeq(s, 1, i))
        /\ Blank(SubSeq(s, i + Len(q) + 1, Len(s)))

\* C9: refined service: the query of the search call is non-empty; it is
\* the model's trimmed output when that is non-empty, and the raw input
\* text when the model returned null, empty or white-space-only content.
C9_QueryNonEmpty ==
    \A r \in Clients :
        \A n \in DOMAIN calls[r] :
            (variant = "refined" /\ calls[r][n].kind = "search") =>
                LET q == calls[r][n].q
                    content == replies[r][1].content
                IN  /\ q # <<>>
                    /\ IF content = None \/ Blank(content[1])
                       THEN q = req[r].text[1]
                       ELSE IsTrimOf(q, content[1])

C9_Witness ==
    /\ variant = "refined"
    /\ KindCount(1, "search") = 1
    /\ replies[1][1].content = Some(<<" ">>)
    /\ calls[1][2].q = req[1].text[1]

\* C10: the artifact names of any two successful requests handled by the
\* same process differ.
C10_NamesUnique ==
    \A r1, r2 \in Clients :
        (r1 # r2 /\ Done(r1) /\ Done(r2) /\ Status(r1) = 200 /\ Status(r2) = 200) =>
            Artifact(r1).name # Artifact(r2).name

\* Sanity of the base64 model: decoding returns the bytes that were fetched.
Base64RoundTrip ==
    \A r \in Clients :
        (Done(r) /\ Status(r) = 200) =>
            Base64Decode(Artifact(r).base64) = LastReply(r).body
====
